---- MODULE Spec2Model ----
(***************************************************************************)
(* Model of forest's delegated-consensus block proposer                    *)
(* (src/deleg_cns/proposer.rs): DelegatedProposer::new, ::create_block,    *)
(* Proposer::spawn and DelegatedProposer::run.                             *)
(*                                                                         *)
(* One task runs `run`.  Every call `run` and `create_block` make is one   *)
(* action; `pc` is the call the task is about to make.  The collaborators  *)
(* (chain store, state manager, mempool, blockstore, key management,       *)
(* gossip submitter) live outside proposer.rs: each call returns a value   *)
(* drawn from a small set or fails.  The rest of the node moves the chain  *)
(* head (SetHeaviestTipset) at any point, and wall-clock time passes       *)
(* (TimePasses) while the task is in a call or waits for its next tick.    *)
(***************************************************************************)
EXTENDS Integers, Sequences, FiniteSets, TLC

\* ---------------------------------------------------------------- bounds
MaxTime == 60        \* the clock stops here (seconds since `run` started)
TimeStep == 15       \* granularity of the clock, in seconds
MaxTip == 3          \* tipsets 0..MaxTip exist in the chain store
MaxMsgs == 2         \* the mempool selects at most this many messages
MaxWeight == 1       \* the weight function returns a value in 0..MaxWeight

\* ------------------------------------------------------ chain configuration
\* chain_config().block_delay_secs: the timer period and the timestamp step.
block_delay_secs == 30

\* Epochs are i64 and timestamps u64 seconds; the tipsets below are those of
\* a chain in operation, far from either type's limit, so `+` does not wrap.

\* A local that holds nothing (not yet assigned, or moved out).
NoVal == [none |-> TRUE]

\* ------------------------------------------------------------- tipsets
\* A tipset is identified by its key; epoch and min_timestamp are read from
\* it.  Tipsets 1 and 2 are two forks of the same epoch.
TipsetOf(k) ==
    LET e == 100 + ((k + 1) \div 2)
    IN  [key |-> k, epoch |-> e,
         min_timestamp |-> 1000 + block_delay_secs * (e - 100) + 7 * (k % 2)]

Tipsets == {TipsetOf(k) : k \in 0..MaxTip}

\* --------------------------------------------------------- messages
\* Message i of the pool; odd ones are BLS-signed, even ones secp256k1.
SignedMessage(i) == [cid |-> i, sig_type |-> IF i % 2 = 1 THEN "bls" ELSE "secp"]

Selections == {[i \in 1..n |-> SignedMessage(i)] : n \in 0..MaxMsgs}

RECURSIVE CidsOf(_, _)
CidsOf(ms, t) ==
    IF ms = <<>> THEN <<>>
    ELSE IF Head(ms).sig_type = t
         THEN <<Head(ms).cid>> \o CidsOf(Tail(ms), t)
         ELSE CidsOf(Tail(ms), t)

\* crate::chain::persist_block_messages: the bundle stored for `ms`.
PersistedFor(ms) ==
    [msg_cid   |-> <<"meta", CidsOf(ms, "bls"), CidsOf(ms, "secp")>>,
     bls_agg   |-> <<"agg", CidsOf(ms, "bls")>>,
     bls_cids  |-> CidsOf(ms, "bls"),
     secp_cids |-> CidsOf(ms, "secp")]

\* ------------------------------------------------------------ identity
Identities == {[miner_addr |-> "t01", key |-> "key1"],
               [miner_addr |-> "t02", key |-> "key2"]}

\* ---------------------------------------------------------------- state
VARIABLES
    miner_addr, key,      \* DelegatedProposer's fields
    pc,                   \* the call the task makes next
    task,                 \* the result of the spawned task in the JoinSet
    now,                  \* wall-clock seconds since the interval was created
    deadline,             \* the interval's next deadline
    heaviest,             \* the chain store's heaviest tipset
    blockstore,           \* message bundles persisted so far
    base,                 \* run: `base`
    parent_state,         \* create_block: (parent_state_root, parent_receipts)
    parent_base_fee,
    parent_weight,
    msgs,
    persisted,
    header,
    block,                \* run: `block`, the Ok value of create_block
    ticks,                \* ticks taken from the interval so far
    calls,                \* calls made on the current tick, in order
    prev_base,            \* the `base` of the previous tick
    prev_block,           \* the block the previous tick produced
    produced,             \* blocks create_block has returned so far
    submissions           \* every submit_block call: <<tick, succeeded>>

locals == <<base, parent_state, parent_base_fee, parent_weight, msgs,
            persisted, header, block>>
self == <<miner_addr, key>>
history == <<prev_base, prev_block, produced, submissions>>
vars == <<miner_addr, key, pc, task, now, deadline, heaviest, blockstore,
          base, parent_state, parent_base_fee, parent_weight, msgs,
          persisted, header, block, ticks, calls, prev_base, prev_block,
          produced,
          submissions>>

Steps == {"interval_next", "heaviest_tipset", "tipset_state",
          "compute_base_fee", "weight", "select_signed",
          "persist_block_messages", "build", "sign", "submit_block",
          "returned"}

\* The spawned task has not finished.
Running == [context |-> "none", error |-> "none"]

\* ------------------------------------------------------------- new, spawn
\* DelegatedProposer::new followed by Proposer::spawn: the task exists and
\* `run` has created its interval (first deadline: immediately).
Init ==
    /\ \E id \in Identities : miner_addr = id.miner_addr /\ key = id.key
    /\ pc = "interval_next"
    /\ task = Running
    /\ now = 0
    /\ deadline = 0
    /\ heaviest \in Tipsets
    /\ blockstore = {}
    /\ base = NoVal /\ parent_state = NoVal /\ parent_base_fee = NoVal
    /\ parent_weight = NoVal /\ msgs = NoVal /\ persisted = NoVal
    /\ header = NoVal /\ block = NoVal
    /\ ticks = 0
    /\ calls = <<>>
    /\ prev_base = NoVal
    /\ prev_block = NoVal
    /\ produced = 0
    /\ submissions = <<>>

\* The task's result once `run` returned Err(e): spawn adds its context.
SpawnResult(e) == [context |-> "block proposal stopped", error |-> e]

\* Fail, were the error arm to log and keep going.
FailKeepsGoing(step) ==
    /\ pc' = "interval_next"
    /\ task' = task
    /\ calls' = Append(calls, [op |-> step, ok |-> FALSE])

\* `?` in create_block, then `Err(e) => return Err(anyhow!(e))` in run.
Fail(step) ==
    /\ pc' = "returned"
    /\ task' = SpawnResult(step)
    /\ calls' = Append(calls, [op |-> step, ok |-> FALSE])

Called(step) == calls' = Append(calls, [op |-> step, ok |-> TRUE])

\* ------------------------------------------------------------------ run
\* tokio::time::interval: the first tick completes at once, each later one
\* a period after the previous deadline (missed ticks are not skipped).
NextDeadline == deadline + block_delay_secs

\* IntervalNext, were each tick's work spawned instead of awaited: the next
\* tick is taken while the previous one is still being processed.
IntervalNextNotAwaited ==
    /\ pc # "returned"
    /\ now >= deadline
    /\ deadline' = NextDeadline
    /\ ticks' = ticks + 1
    /\ calls' = <<>>
    /\ pc' = "heaviest_tipset"
    /\ prev_base' = base
    /\ prev_block' = block
    /\ base' = NoVal /\ parent_state' = NoVal /\ parent_base_fee' = NoVal
    /\ parent_weight' = NoVal /\ msgs' = NoVal /\ persisted' = NoVal
    /\ header' = NoVal /\ block' = NoVal
    /\ UNCHANGED <<self, task, now, heaviest, blockstore, produced,
                   submissions>>

\* The task's result were `run` to leave its loop and return `Ok(())`.
RunOk == [context |-> "none", error |-> "ok"]

\* IntervalNext, were the stream to end after its first tick (`None`): the
\* loop is left and run returns Ok(()).
IntervalNextStreamEnds ==
    /\ pc = "interval_next"
    /\ now >= deadline
    /\ IF ticks = 0
       THEN /\ deadline' = NextDeadline
            /\ ticks' = ticks + 1
            /\ calls' = <<>>
            /\ pc' = "heaviest_tipset"
            /\ prev_base' = base
            /\ prev_block' = block
            /\ base' = NoVal /\ parent_state' = NoVal
            /\ parent_base_fee' = NoVal /\ parent_weight' = NoVal
            /\ msgs' = NoVal /\ persisted' = NoVal
            /\ header' = NoVal /\ block' = NoVal
            /\ UNCHANGED task
       ELSE /\ pc' = "returned"
            /\ task' = RunOk
            /\ UNCHANGED <<deadline, ticks, calls, prev_base, prev_block,
                           locals>>
    /\ UNCHANGED <<self, now, heaviest, blockstore, produced, submissions>>

\* `while interval.next().await.is_some()`
IntervalNext ==
    /\ pc = "interval_next"
    /\ now >= deadline
    /\ deadline' = NextDeadline
    /\ ticks' = ticks + 1
    /\ calls' = <<>>
    /\ pc' = "heaviest_tipset"
    /\ prev_base' = base
    /\ prev_block' = block
    /\ base' = NoVal /\ parent_state' = NoVal /\ parent_base_fee' = NoVal
    /\ parent_weight' = NoVal /\ msgs' = NoVal /\ persisted' = NoVal
    /\ header' = NoVal /\ block' = NoVal
    /\ UNCHANGED <<self, task, now, heaviest, blockstore, produced,
                   submissions>>

\* HeaviestTipset, were the tip fetched on the first tick and kept.
HeaviestTipsetCached ==
    /\ pc = "heaviest_tipset"
    /\ base' = IF prev_base = NoVal THEN heaviest ELSE prev_base
    /\ calls' = Append(calls, [op |-> "heaviest_tipset", ok |-> TRUE,
                                ret |-> heaviest])
    /\ pc' = "tipset_state"
    /\ UNCHANGED <<self, task, now, deadline, heaviest, blockstore,
                   parent_state, parent_base_fee, parent_weight, msgs,
                   persisted, header, block, ticks, history>>

\* `let base = chain_store.heaviest_tipset();`
HeaviestTipset ==
    /\ pc = "heaviest_tipset"
    /\ base' = heaviest
    /\ calls' = Append(calls, [op |-> "heaviest_tipset", ok |-> TRUE,
                                ret |-> heaviest])
    /\ pc' = "tipset_state"
    /\ UNCHANGED <<self, task, now, deadline, heaviest, blockstore,
                   parent_state, parent_base_fee, parent_weight, msgs,
                   persisted, header, block, ticks, history>>

\* --------------------------------------------------------- create_block
\* state_manager.tipset_state(base): the state root and receipts of `base`.
TipsetStateOf(t) == [state_root |-> <<"state", t.key>>,
                     receipts |-> <<"receipts", t.key>>]

\* crate::chain::compute_base_fee(blockstore, base, smoke_height)
BaseFeeOf(t) == 100 + t.key

\* TipsetState, were the error dropped instead of propagated with `?`.
TipsetStateErrorDropped ==
    /\ pc = "tipset_state"
    /\ \/ /\ parent_state' = TipsetStateOf(base)
          /\ Called("tipset_state")
       \/ /\ parent_state' = NoVal
          /\ calls' = Append(calls, [op |-> "tipset_state", ok |-> FALSE])
    /\ pc' = "compute_base_fee"
    /\ UNCHANGED <<self, task, now, deadline, heaviest, blockstore, base,
                   parent_base_fee, parent_weight, msgs, persisted, header,
                   block, ticks, history>>

\* `state_manager.tipset_state(base).await?`
TipsetState ==
    /\ pc = "tipset_state"
    /\ \/ /\ parent_state' = TipsetStateOf(base)
          /\ Called("tipset_state")
          /\ pc' = "compute_base_fee"
          /\ UNCHANGED task
       \/ /\ Fail("tipset_state")
          /\ UNCHANGED parent_state
    /\ UNCHANGED <<self, now, deadline, heaviest, blockstore, base,
                   parent_base_fee, parent_weight, msgs, persisted, header,
                   block, ticks, history>>

\* ComputeBaseFee, were a failed computation tried again.
ComputeBaseFeeRetried ==
    /\ pc = "compute_base_fee"
    /\ \/ /\ parent_base_fee' = BaseFeeOf(base)
          /\ Called("compute_base_fee")
          /\ pc' = "weight"
       \/ /\ calls' = Append(calls, [op |-> "compute_base_fee", ok |-> FALSE])
          /\ UNCHANGED <<parent_base_fee, pc>>
    /\ UNCHANGED <<self, task, now, deadline, heaviest, blockstore, base,
                   parent_state, parent_weight, msgs, persisted, header,
                   block, ticks, history>>

\* `crate::chain::compute_base_fee(...)?`
ComputeBaseFee ==
    /\ pc = "compute_base_fee"
    /\ \/ /\ parent_base_fee' = BaseFeeOf(base)
          /\ Called("compute_base_fee")
          /\ pc' = "weight"
          /\ UNCHANGED task
       \/ /\ Fail("compute_base_fee")
          /\ UNCHANGED parent_base_fee
    /\ UNCHANGED <<self, now, deadline, heaviest, blockstore, base,
                   parent_state, parent_weight, msgs, persisted, header,
                   block, ticks, history>>

\* `DelegatedConsensus::weight(state_manager.blockstore(), base)?`
Weight ==
    /\ pc = "weight"
    /\ \/ /\ \E w \in 0..MaxWeight : parent_weight' = w
          /\ Called("weight")
          /\ pc' = "select_signed"
          /\ UNCHANGED task
       \/ /\ Fail("weight")
          /\ UNCHANGED parent_weight
    /\ UNCHANGED <<self, now, deadline, heaviest, blockstore, base,
                   parent_state, parent_base_fee, msgs, persisted, header,
                   block, ticks, history>>

\* SelectSigned, were an empty selection refused (`bail!` on no messages).
SelectSignedRefusesEmpty ==
    /\ pc = "select_signed"
    /\ \/ /\ \E ms \in Selections :
                /\ msgs' = ms
                /\ Called("select_signed")
                /\ IF ms = <<>>
                   THEN pc' = "returned" /\ task' = SpawnResult("select_signed")
                   ELSE pc' = "persist_block_messages" /\ UNCHANGED task
       \/ /\ Fail("select_signed")
          /\ UNCHANGED msgs
    /\ UNCHANGED <<self, now, deadline, heaviest, blockstore, base,
                   parent_state, parent_base_fee, parent_weight, persisted,
                   header, block, ticks, history>>

\* `mpool.select_signed(state_manager, base)?` and the map to references
SelectSigned ==
    /\ pc = "select_signed"
    /\ \/ /\ \E ms \in Selections : msgs' = ms
          /\ Called("select_signed")
          /\ pc' = "persist_block_messages"
          /\ UNCHANGED task
       \/ /\ Fail("select_signed")
          /\ UNCHANGED msgs
    /\ UNCHANGED <<self, now, deadline, heaviest, blockstore, base,
                   parent_state, parent_base_fee, parent_weight, persisted,
                   header, block, ticks, history>>

\* `crate::chain::persist_block_messages(state_manager.blockstore(), msgs)?`
PersistBlockMessages ==
    /\ pc = "persist_block_messages"
    /\ \/ /\ persisted' = PersistedFor(msgs)
          /\ blockstore' = blockstore \cup {PersistedFor(msgs).msg_cid}
          /\ Called("persist_block_messages")
          /\ pc' = "build"
          /\ UNCHANGED task
       \/ /\ Fail("persist_block_messages")
          /\ UNCHANGED <<persisted, blockstore>>
    /\ UNCHANGED <<self, now, deadline, heaviest, base, parent_state,
                   parent_base_fee, parent_weight, msgs, header, block,
                   ticks, history>>

\* BuiltHeader, were the timestamp the parent's (block_delay not added).
BuiltHeaderNoDelay ==
    [messages         |-> persisted.msg_cid,
     bls_aggregate    |-> persisted.bls_agg,
     miner_address    |-> miner_addr,
     weight           |-> parent_weight,
     parent_base_fee  |-> parent_base_fee,
     parents          |-> base.key,
     epoch            |-> base.epoch + 1,
     timestamp        |-> base.min_timestamp,
     state_root       |-> parent_state.state_root,
     message_receipts |-> parent_state.receipts,
     signature        |-> NoVal]

\* BuiltHeader, were the new block's messages counted into the weight.
BuiltHeaderWeighsMessages ==
    [messages         |-> persisted.msg_cid,
     bls_aggregate    |-> persisted.bls_agg,
     miner_address    |-> miner_addr,
     weight           |-> parent_weight + Len(msgs),
     parent_base_fee  |-> parent_base_fee,
     parents          |-> base.key,
     epoch            |-> base.epoch + 1,
     timestamp        |-> base.min_timestamp + block_delay_secs,
     state_root       |-> parent_state.state_root,
     message_receipts |-> parent_state.receipts,
     signature        |-> NoVal]

\* BuiltHeader, were the epoch counted from the clock, not from the parent.
BuiltHeaderEpochFromClock ==
    [messages         |-> persisted.msg_cid,
     bls_aggregate    |-> persisted.bls_agg,
     miner_address    |-> miner_addr,
     weight           |-> parent_weight,
     parent_base_fee  |-> parent_base_fee,
     parents          |-> base.key,
     epoch            |-> 101 + (now \div block_delay_secs),
     timestamp        |-> base.min_timestamp + block_delay_secs,
     state_root       |-> parent_state.state_root,
     message_receipts |-> parent_state.receipts,
     signature        |-> NoVal]

\* BuiltHeader, were the builder's default miner address left in place.
BuiltHeaderDefaultMiner ==
    [messages         |-> persisted.msg_cid,
     bls_aggregate    |-> persisted.bls_agg,
     miner_address    |-> "t00",
     weight           |-> parent_weight,
     parent_base_fee  |-> parent_base_fee,
     parents          |-> base.key,
     epoch            |-> base.epoch + 1,
     timestamp        |-> base.min_timestamp + block_delay_secs,
     state_root       |-> parent_state.state_root,
     message_receipts |-> parent_state.receipts,
     signature        |-> NoVal]

\* BuiltHeader, were the timestamp read from the clock at assembly.
BuiltHeaderWallClock ==
    [messages         |-> persisted.msg_cid,
     bls_aggregate    |-> persisted.bls_agg,
     miner_address    |-> miner_addr,
     weight           |-> parent_weight,
     parent_base_fee  |-> parent_base_fee,
     parents          |-> base.key,
     epoch            |-> base.epoch + 1,
     timestamp        |-> base.min_timestamp + block_delay_secs + now,
     state_root       |-> parent_state.state_root,
     message_receipts |-> parent_state.receipts,
     signature        |-> NoVal]

\* The header `BlockHeader::builder()...build()` yields from the locals.
BuiltHeader ==
    [messages         |-> persisted.msg_cid,
     bls_aggregate    |-> persisted.bls_agg,
     miner_address    |-> miner_addr,
     weight           |-> parent_weight,
     parent_base_fee  |-> parent_base_fee,
     parents          |-> base.key,
     epoch            |-> base.epoch + 1,
     timestamp        |-> base.min_timestamp + block_delay_secs,
     state_root       |-> parent_state.state_root,
     message_receipts |-> parent_state.receipts,
     signature        |-> NoVal]

\* `let mut header = BlockHeader::builder()....build()?;`
Build ==
    /\ pc = "build"
    /\ \/ /\ header' = BuiltHeader
          /\ Called("build")
          /\ pc' = "sign"
          /\ UNCHANGED task
       \/ /\ Fail("build")
          /\ UNCHANGED header
    /\ UNCHANGED <<self, now, deadline, heaviest, blockstore, base,
                   parent_state, parent_base_fee, parent_weight, msgs,
                   persisted, block, ticks, history>>

\* header.to_signing_bytes(): the header's fields without the signature.
ToSigningBytes(h) == [h EXCEPT !.signature = NoVal]

\* crate::key_management::sign(key_type, private_key, bytes)
Signature(k, bytes) == [signer |-> k, signed |-> bytes]

\* SignedBlock, were the timestamp set again after the header was signed.
SignedBlockTouchedAfterSigning ==
    [header |-> [header EXCEPT
                    !.signature = Signature(key, ToSigningBytes(header)),
                    !.timestamp = header.timestamp + 1],
     bls_messages   |-> persisted.bls_cids,
     secpk_messages |-> persisted.secp_cids]

\* What create_block returns: the header with the signature attached and
\* the identifier sequences of the persisted bundle.
SignedBlock ==
    [header |-> [header EXCEPT
                    !.signature = Signature(key, ToSigningBytes(header))],
     bls_messages   |-> persisted.bls_cids,
     secpk_messages |-> persisted.secp_cids]

\* Sign, were a failed signing to remove the tick's bundle from the store.
SignRollsBack ==
    /\ pc = "sign"
    /\ \/ /\ block' = SignedBlock
          /\ header' = SignedBlock.header
          /\ produced' = produced + 1
          /\ Called("sign")
          /\ pc' = "submit_block"
          /\ UNCHANGED <<task, blockstore>>
       \/ /\ Fail("sign")
          /\ blockstore' = blockstore \ {persisted.msg_cid}
          /\ UNCHANGED <<header, block, produced>>
    /\ UNCHANGED <<self, now, deadline, heaviest, base, parent_state,
                   parent_base_fee, parent_weight, msgs, persisted, ticks,
                   prev_base, prev_block, submissions>>

\* Sign, were a signing error to leave the header unsigned (`.ok()`).
SignErrorDropped ==
    /\ pc = "sign"
    /\ \/ /\ block' = SignedBlock
          /\ header' = SignedBlock.header
          /\ Called("sign")
       \/ /\ block' = [SignedBlock EXCEPT !.header = header]
          /\ calls' = Append(calls, [op |-> "sign", ok |-> FALSE])
          /\ UNCHANGED header
    /\ produced' = produced + 1
    /\ pc' = "submit_block"
    /\ UNCHANGED <<self, task, now, deadline, heaviest, blockstore, base,
                   parent_state, parent_base_fee, parent_weight, msgs,
                   persisted, ticks, prev_base, prev_block, submissions>>

\* `sign(...)?; header.signature = Some(sig); Ok(GossipBlock {..})`
Sign ==
    /\ pc = "sign"
    /\ \/ /\ block' = SignedBlock
          /\ header' = SignedBlock.header
          /\ produced' = produced + 1
          /\ Called("sign")
          /\ pc' = "submit_block"
          /\ UNCHANGED task
       \/ /\ Fail("sign")
          /\ UNCHANGED <<header, block, produced>>
    /\ UNCHANGED <<self, now, deadline, heaviest, blockstore, base,
                   parent_state, parent_base_fee, parent_weight, msgs,
                   persisted, ticks, prev_base, prev_block, submissions>>

\* ------------------------------------------------------ run, continued
\* AfterSubmit, were a failed submission fatal like a failed assembly.
AfterSubmitFatal(ok) == IF ok THEN "interval_next" ELSE "returned"

\* AfterSubmit, were a failed submission tried again.
AfterSubmitRetry(ok) == IF ok THEN "interval_next" ELSE "submit_block"

\* Where the task goes after `submitter.submit_block(block).await`, whether
\* it returned Ok(()) or Err(e): both arms only log.
AfterSubmit(ok) == "interval_next"

\* SubmitBlock, were the block dropped without being handed to the submitter.
SubmitBlockDropped ==
    /\ pc = "submit_block"
    /\ pc' = "interval_next"
    /\ UNCHANGED <<self, task, now, deadline, heaviest, blockstore, locals,
                   ticks, calls, history>>

\* `match submitter.submit_block(block).await { Ok(()) => info!, Err(e) => error! }`
SubmitBlock ==
    /\ pc = "submit_block"
    /\ \E ok \in BOOLEAN :
          /\ submissions' = Append(submissions, <<ticks, ok>>)
          /\ calls' = Append(calls, [op |-> "submit_block", ok |-> ok])
          /\ pc' = AfterSubmit(ok)
    /\ UNCHANGED <<self, task, now, deadline, heaviest, blockstore, locals,
                   ticks, prev_base, prev_block, produced>>

\* ----------------------------------------------------------- environment
\* The rest of the node changes the chain head.
SetHeaviestTipset ==
    /\ \E t \in Tipsets \ {heaviest} : heaviest' = t
    /\ UNCHANGED <<self, pc, task, now, deadline, blockstore, locals, ticks,
                   calls, history>>

\* Wall-clock time passes while the task is in a call, or waits for a
\* deadline that has not come: a task whose tick is due is woken at once.
TimePasses ==
    /\ now + TimeStep <= MaxTime
    /\ ~(pc = "interval_next" /\ now >= deadline)
    /\ now' = now + TimeStep
    /\ UNCHANGED <<self, pc, task, deadline, heaviest, blockstore, locals,
                   ticks, calls, history>>

Proposer ==
    \/ IntervalNext
    \/ HeaviestTipset
    \/ TipsetState
    \/ ComputeBaseFee
    \/ Weight
    \/ SelectSigned
    \/ PersistBlockMessages
    \/ Build
    \/ Sign
    \/ SubmitBlock

Next == Proposer \/ SetHeaviestTipset \/ TimePasses

Spec == Init /\ [][Next]_vars

\* The body of one loop iteration: the calls between two interval.next().
TickBody ==
    \/ HeaviestTipset
    \/ TipsetState
    \/ ComputeBaseFee
    \/ Weight
    \/ SelectSigned
    \/ PersistBlockMessages
    \/ Build
    \/ Sign
    \/ SubmitBlock

TypeOK ==
    /\ pc \in Steps
    /\ now \in 0..MaxTime
    /\ heaviest \in Tipsets
    /\ ticks \in Nat
    /\ base \in Tipsets \cup {NoVal}

\* ======================================================== properties
Last(s) == s[Len(s)]

\* The steps of create_block, in the order of the code.
AssemblySteps == <<"tipset_state", "compute_base_fee", "weight",
                   "select_signed", "persist_block_messages", "build",
                   "sign">>

IsAssemblyStep(op) == \E i \in 1..Len(AssemblySteps) : AssemblySteps[i] = op

\* create_block has failed on the current tick.
CreateBlockFailed ==
    \E i \in 1..Len(calls) : IsAssemblyStep(calls[i].op) /\ ~calls[i].ok

\* A submission was attempted on tick t.
SubmittedOn(t) == \E i \in 1..Len(submissions) : submissions[i][1] = t

\* What the task does: everything but the clock and the chain head.
taskVars == <<miner_addr, key, pc, task, deadline, blockstore, base,
              parent_state, parent_base_fee, parent_weight, msgs, persisted,
              header, block, ticks, calls, prev_base, prev_block, produced,
              submissions>>

\* C1: when create_block fails on a tick the loop is halted and the task has
\* ended with that error (under spawn's context); once halted, the task never
\* takes another step: no tick, tip fetch, assembly step, signing or
\* submission.
C1_HaltedIsTerminal ==
    /\ [](CreateBlockFailed =>
            /\ pc = "returned"
            /\ IsAssemblyStep(Last(calls).op) /\ ~Last(calls).ok
            /\ task = SpawnResult(Last(calls).op))
    /\ [][pc = "returned" => UNCHANGED taskVars]_vars

\* C1 witness: the loop is halted while the timer owes a tick.
C1_Witness ==
    /\ pc = "returned" /\ task # Running
    /\ now >= deadline /\ ticks = 1 /\ now > 0

\* C2: after a failed submission the loop is not halted: the task is still
\* running and waits for the interval, and as soon as a tick is due it is
\* taken.  This does not depend on how many submissions failed before.
C2_SubmissionFailureNotFatal ==
    (calls # <<>> /\ Last(calls) = [op |-> "submit_block", ok |-> FALSE]) =>
        /\ pc = "interval_next"
        /\ task = Running
        /\ (now >= deadline => ENABLED IntervalNext)

\* C2 witness: two submissions failed and a third tick assembled a block and
\* has reached its own submission.
C2_Witness ==
    /\ Len(submissions) = 2
    /\ ~submissions[1][2] /\ ~submissions[2][2]
    /\ pc = "submit_block" /\ ticks = 3

\* C3: on a tick where tipset_state fails, the calls made are the tip fetch
\* and tipset_state and nothing else: no later assembly step, no signing, no
\* block, no submission.
C3_TipsetStateFailureShortCircuits ==
    (\E i \in 1..Len(calls) : calls[i] = [op |-> "tipset_state", ok |-> FALSE])
    =>  /\ Len(calls) = 2
        /\ calls[1].op = "heaviest_tipset"
        /\ block = NoVal
        /\ ~SubmittedOn(ticks)

\* C3 witness: tipset_state failed on the second tick.
C3_Witness ==
    /\ ticks = 2
    /\ pc = "returned"
    /\ task = SpawnResult("tipset_state")

\* C4: on a tick where signing fails no block is returned and nothing is
\* submitted, and the loop halts as for any assembly failure: the task ends
\* with the error and signing stays the last call it ever made.
C4_SigningFailureHalts ==
    /\ (\E i \in 1..Len(calls) : calls[i] = [op |-> "sign", ok |-> FALSE])
       =>  /\ pc = "returned"
           /\ task = SpawnResult("sign")
           /\ block = NoVal
           /\ ~SubmittedOn(ticks)
    /\ task = SpawnResult("sign")
       =>  /\ pc = "returned"
           /\ Last(calls) = [op |-> "sign", ok |-> FALSE]

\* C4 witness: signing failed on the second tick and a tick is owed.
C4_Witness ==
    /\ task = SpawnResult("sign")
    /\ ticks = 2
    /\ now >= deadline

\* C5: the header assembled on parent tip `base`, and the block returned
\* with it, has epoch base.epoch + 1 and timestamp base.min_timestamp +
\* block_delay_secs.
C5_EpochAndTimestamp ==
    /\ header # NoVal =>
          /\ header.epoch = base.epoch + 1
          /\ header.timestamp = base.min_timestamp + block_delay_secs
    /\ block # NoVal =>
          /\ block.header.epoch = base.epoch + 1
          /\ block.header.timestamp = base.min_timestamp + block_delay_secs

\* C5 witness: interval 30, parent epoch 100 and min timestamp 1000 give a
\* block of epoch 101 and timestamp 1030.
C5_Witness ==
    /\ block_delay_secs = 30
    /\ block # NoVal
    /\ base.epoch = 100 /\ base.min_timestamp = 1000
    /\ block.header.epoch = 101 /\ block.header.timestamp = 1030

\* The weight function has returned on the current tick.
WeightReturned ==
    \E i \in 1..Len(calls) : calls[i] = [op |-> "weight", ok |-> TRUE]

\* C6: the weight of the assembled header and of the produced block is the
\* value the weight function returned for the parent tip on this tick,
\* whatever messages were selected after it.
C6_WeightUnmodified ==
    /\ header # NoVal => WeightReturned /\ header.weight = parent_weight
    /\ block # NoVal => WeightReturned /\ block.header.weight = parent_weight

\* C6 witness: a block that carries messages and the weight returned.
C6_Witness ==
    /\ block # NoVal
    /\ Len(block.bls_messages) + Len(block.secpk_messages) > 0
    /\ block.header.weight = parent_weight
    /\ parent_weight > 0

\* C7: submit_block is called at most once per produced block: there are
\* never more submissions than produced blocks, at most one block is
\* produced per tick, and the ticks of the submissions strictly increase, so
\* no tick's block is submitted twice, failed or not.
C7_AtMostOneSubmission ==
    /\ Len(submissions) <= produced
    /\ produced <= ticks
    /\ \A i, j \in 1..Len(submissions) :
          i < j => submissions[i][1] < submissions[j][1]

\* C7 witness: a submission failed and a later tick has run to its end.
C7_Witness ==
    /\ Len(submissions) >= 2
    /\ ~submissions[1][2]
    /\ pc = "interval_next"

\* Ticks the interval owes: deadlines that have passed and were not taken.
OwedTicks ==
    IF now >= deadline THEN ((now - deadline) \div block_delay_secs) + 1 ELSE 0

\* C8: the timer never owes more than one tick, however long a tick's
\* processing took.
C8_AtMostOneTickOwed == OwedTicks <= 1

\* C9: a tick is taken only when the task is waiting for the interval, that
\* is when the previous tick's assembly and submission have finished,
\* also when the timer's deadline passed while they were running.
C9_NoOverlappingTicks ==
    [][ticks' # ticks =>
          /\ pc = "interval_next"
          /\ (calls = <<>> \/ Last(calls).op = "submit_block")]_vars

\* C9 witness: a tick falls due in the middle of an assembly.
C9_Witness ==
    /\ pc = "select_signed"
    /\ now >= deadline
    /\ ticks = 1

\* Calls of heaviest_tipset made on the current tick.
TipFetches == {i \in 1..Len(calls) : calls[i].op = "heaviest_tipset"}

\* C10: once a tick has fetched the tip, that fetch is the tick's first and
\* only heaviest_tipset call, `base` is what the chain store returned to it,
\* and the block produced on the tick has that tipset as its parents.
C10_TipFetchedEveryTick ==
    /\ calls # <<>> =>
          /\ TipFetches = {1}
          /\ base = calls[1].ret
    /\ block # NoVal => block.header.parents = calls[1].ret.key

\* C10 witness: the head changed between two ticks and the second tick's
\* block is built on the new head.
C10_Witness ==
    /\ ticks = 2
    /\ block # NoVal
    /\ prev_base # NoVal /\ prev_base # base
    /\ block.header.parents = base.key

\* The current tick and the one before it each produced a block.
TwoBlocks == ticks >= 2 /\ block # NoVal /\ prev_block # NoVal

\* C11: when two consecutive ticks each produce a block and the tip fetched
\* by the second is of a later epoch than the tip fetched by the first, the
\* two blocks differ and the second block's epoch is the greater.
C11_AdvancingTipNewBlock ==
    (TwoBlocks /\ base.epoch > prev_base.epoch) =>
        /\ block # prev_block
        /\ block.header.epoch > prev_block.header.epoch

\* C11 witness: two ticks, both submitted with success, the tip advanced in
\* between.
C11_Witness ==
    /\ TwoBlocks
    /\ Len(submissions) = 2 /\ submissions[1][2] /\ submissions[2][2]
    /\ base.epoch > prev_base.epoch
    /\ block.header.epoch > prev_block.header.epoch

\* C12: the task has ended exactly when run has returned, and run returns
\* only with the error of the create_block step that failed last: there is
\* no successful return, however many ticks were delivered.
C12_OnlyErrorTermination ==
    /\ (pc = "returned") <=> (task # Running)
    /\ pc = "returned" =>
          \E i \in 1..Len(AssemblySteps) :
              /\ task = SpawnResult(AssemblySteps[i])
              /\ Last(calls) = [op |-> AssemblySteps[i], ok |-> FALSE]

\* C12 witness: the loop ended on its third tick, with persistence failing.
C12_Witness ==
    /\ pc = "returned"
    /\ ticks = 3
    /\ task = SpawnResult("persist_block_messages")

\* select_signed has returned an empty selection on the current tick.
SelectedNothing ==
    /\ \E i \in 1..Len(calls) : calls[i] = [op |-> "select_signed", ok |-> TRUE]
    /\ Len(msgs) = 0

\* C13: an empty selection is no error and gives an empty block: on a tick
\* whose selection is empty the task ends only if a later call failed, the
\* block returned is signed and has no message identifiers of either class,
\* and when the tick is over without a halt that block was submitted.
C13_EmptySelectionEmptyBlock ==
    /\ (SelectedNothing /\ task # Running) => ~Last(calls).ok
    /\ (SelectedNothing /\ block # NoVal) =>
          /\ block.bls_messages = <<>>
          /\ block.secpk_messages = <<>>
          /\ Len(block.secpk_messages) + Len(block.bls_messages) = 0
          /\ block.header.signature # NoVal
    /\ (SelectedNothing /\ pc = "interval_next") =>
          /\ block # NoVal
          /\ SubmittedOn(ticks)

\* C13 witness: a tick with an empty selection ended with its empty block
\* submitted.
C13_Witness ==
    /\ SelectedNothing
    /\ pc = "interval_next"
    /\ Last(calls) = [op |-> "submit_block", ok |-> TRUE]
    /\ block.bls_messages = <<>> /\ block.secpk_messages = <<>>

\* The call made in position i of a tick.
CallAt(i) ==
    IF i = 1 THEN "heaviest_tipset"
    ELSE IF i <= Len(AssemblySteps) + 1 THEN AssemblySteps[i - 1]
    ELSE "submit_block"

\* C14: the calls of a tick are made in the order of the code, each one at
\* most once and only after all earlier ones succeeded (a failed call is the
\* tick's last); when a step of create_block fails no block is returned and
\* the task's error is that step's; a block exists only after all seven
\* steps succeeded.
C14_StepsInOrder ==
    /\ Len(calls) <= Len(AssemblySteps) + 2
    /\ \A i \in 1..Len(calls) : calls[i].op = CallAt(i)
    /\ \A i \in 1..(Len(calls) - 1) : calls[i].ok
    /\ CreateBlockFailed =>
          /\ block = NoVal
          /\ pc = "returned"
          /\ task = SpawnResult(Last(calls).op)
    /\ block # NoVal =>
          /\ Len(calls) >= Len(AssemblySteps) + 1
          /\ \A i \in 1..(Len(AssemblySteps) + 1) : calls[i].ok

\* C14 witness: header construction failed after the five steps before it
\* succeeded.
C14_Witness ==
    /\ Len(calls) = 7
    /\ Last(calls) = [op |-> "build", ok |-> FALSE]
    /\ task = SpawnResult("build")
    /\ block = NoVal

\* C15: the block handed to submit_block carries a signature; what was
\* signed is the header as built from this tick's locals, and the block's
\* header is that same header with the signature attached and nothing else
\* changed; its identifier sequences are those of this tick's persisted
\* bundle, which is the bundle persisted for this tick's selection.
C15_SignedHeaderUnchanged ==
    block # NoVal =>
        /\ block.header.signature # NoVal
        /\ block.header.signature.signed = BuiltHeader
        /\ ToSigningBytes(block.header) = block.header.signature.signed
        /\ block.header = [BuiltHeader EXCEPT
                              !.signature = block.header.signature]
        /\ block.bls_messages = persisted.bls_cids
        /\ block.secpk_messages = persisted.secp_cids
        /\ persisted = PersistedFor(msgs)
        /\ block.header.messages = persisted.msg_cid

\* C15 witness: a signed block with one message of each class is about to be
\* submitted.
C15_Witness ==
    /\ pc = "submit_block"
    /\ block.header.signature # NoVal
    /\ Len(block.bls_messages) = 1 /\ Len(block.secpk_messages) = 1

\* C16: no step, of a successful tick or of a failed one, changes the
\* proposer's address or key, so they stay those given to the constructor;
\* every header built and every block produced names that address as its
\* miner, and every signature is made with that key.
C16_IdentityFixed ==
    /\ [][miner_addr' = miner_addr /\ key' = key]_vars
    /\ [](/\ \E id \in Identities :
                miner_addr = id.miner_addr /\ key = id.key
          /\ header # NoVal => header.miner_address = miner_addr
          /\ block # NoVal =>
                /\ block.header.miner_address = miner_addr
                /\ block.header.signature.signer = key
                /\ block.header.signature.signed.miner_address = miner_addr)

\* C16 witness: the second identity has produced a block on a second tick,
\* after a failed submission.
C16_Witness ==
    /\ miner_addr = "t02" /\ key = "key2"
    /\ ticks = 2
    /\ Len(submissions) = 1 /\ ~submissions[1][2]
    /\ block # NoVal
    /\ block.header.miner_address = "t02"
    /\ block.header.signature.signer = "key2"

\* A tick is being processed: the task is between interval.next() and the
\* end of the loop body.
InTick == pc \notin {"interval_next", "returned"}

\* Submissions made for the block of tick t.
SubmissionsOn(t) == {i \in 1..Len(submissions) : submissions[i][1] = t}

\* C17: when the next tick is taken, and whenever the task waits for a tick
\* or has halted, every block produced so far has had its one submission;
\* a tick whose create_block succeeded has exactly one submission once
\* submit_block was called and none before.  A tick being processed is never
\* stuck and cannot go on forever: at each of its points the call the task
\* is in can return, every return adds one call to the tick's calls, and a
\* tick has at most nine calls, so with calls returning it reaches Idle or
\* Halted.
C17_TickRunsToItsEnd ==
    /\ [][/\ ticks' # ticks => produced = Len(submissions)
          /\ (InTick /\ pc' # pc) =>
                /\ Len(calls') = Len(calls) + 1
                /\ Len(calls') <= Len(AssemblySteps) + 2
          /\ (InTick /\ Len(calls') = Len(AssemblySteps) + 2) => ~InTick'
         ]_vars
    /\ [](/\ ~InTick => produced = Len(submissions)
          /\ pc = "submit_block" =>
                /\ produced = Len(submissions) + 1
                /\ SubmissionsOn(ticks) = {}
          /\ (calls # <<>> /\ Last(calls).op = "submit_block") =>
                Cardinality(SubmissionsOn(ticks)) = 1
          /\ InTick => ENABLED TickBody)

\* C17 witness: the third tick has made its submission, after two ticks that
\* did the same.
C17_Witness ==
    /\ ticks = 3
    /\ pc = "interval_next"
    /\ produced = 3 /\ Len(submissions) = 3
    /\ Last(calls).op = "submit_block"

\* persist_block_messages has returned Ok on the current tick.
PersistedThisTick ==
    \E i \in 1..Len(calls) :
        calls[i] = [op |-> "persist_block_messages", ok |-> TRUE]

\* The steps of create_block that come before persistence.
BeforePersistence == {"tipset_state", "compute_base_fee", "weight",
                      "select_signed"}

\* C18: the blockstore changes only when persist_block_messages succeeds,
\* which is before the header is built and signed, and it only grows.  So
\* once a tick has persisted its bundle the bundle stays stored, also when
\* header construction or signing then fails, no block is produced and the
\* loop halts; and a tick that failed before persistence has persisted
\* nothing.
C18_PersistenceNotUndone ==
    /\ [][blockstore' # blockstore =>
              /\ pc = "persist_block_messages" /\ pc' = "build"
              /\ header = NoVal /\ block = NoVal
              /\ blockstore' = blockstore \cup {PersistedFor(msgs).msg_cid}
         ]_vars
    /\ [][(\E st \in BeforePersistence : task' = SpawnResult(st)) =>
              blockstore' = blockstore]_vars
    /\ [](/\ PersistedThisTick => persisted.msg_cid \in blockstore
          /\ (task = SpawnResult("build") \/ task = SpawnResult("sign")) =>
                /\ PersistedThisTick
                /\ persisted.msg_cid \in blockstore
                /\ block = NoVal
                /\ pc = "returned"
          /\ (\E st \in BeforePersistence : task = SpawnResult(st)) =>
                /\ ~PersistedThisTick
                /\ persisted = NoVal)

\* C18 witness: signing failed on the first tick and the bundle of its two
\* messages is in the blockstore.
C18_Witness ==
    /\ ticks = 1
    /\ task = SpawnResult("sign")
    /\ block = NoVal
    /\ blockstore = {PersistedFor(msgs).msg_cid}
    /\ Len(msgs) = 2

\* C19: when the current tick and the one before it fetched the same tip,
\* their blocks have the same parents, the same epoch and the same
\* timestamp, whatever the time between the two ticks, the weights returned,
\* the messages selected and the fate of the first submission.
C19_SameTipSameSlot ==
    (TwoBlocks /\ base = prev_base) =>
        /\ block.header.parents = prev_block.header.parents
        /\ block.header.epoch = prev_block.header.epoch
        /\ block.header.timestamp = prev_block.header.timestamp

\* C19 witness: the first block's submission failed, the tip did not move,
\* and a period later the second tick produced a block of the same parents,
\* epoch and timestamp but with other messages.
C19_Witness ==
    /\ TwoBlocks
    /\ base = prev_base
    /\ Len(submissions) >= 1 /\ ~submissions[1][2]
    /\ now >= block_delay_secs
    /\ block.header.epoch = prev_block.header.epoch
    /\ block.header.timestamp = prev_block.header.timestamp
    /\ block.header.messages # prev_block.header.messages

====
